---- MODULE Spec2Model ----
(***************************************************************************)
(* The Bloxorz A* solver of src/mycode.py as a state machine.              *)
(*                                                                         *)
(* A board is a sequence of rows, a row a sequence of one-character        *)
(* strings.  Coordinates are 0-based as in the Python code; PyIndex turns  *)
(* a Python subscript into a TLA+ one.  costGuess is kept in thirds        *)
(* (3 * len(path) + |dx| + |dy|), the exact value of the Python expression *)
(* len(path) + |dx|/3 + |dy|/3 times three.  Two different exact values    *)
(* differ by at least 1/3, far more than the rounding of the float         *)
(* division, so the float order agrees with the exact order wherever the   *)
(* exact values differ; where they are equal the float order is one of the *)
(* tie-breaks, and pop chooses among all of them.                          *)
(***************************************************************************)
EXTENDS Integers, Sequences, FiniteSets, Bags, TLC

\* ------------------------------------------------------------------ bounds
\* Largest board width and height drawn by Init, and the largest number of
\* void tiles on a board.
MaxX == 4
MaxY == 3
MaxVoid == 1
\* Number of solve() calls made on one engine.
MaxCalls == 2

VARIABLES
    map,        \* Bloxorz.map: rows of one-character strings
    goalX,      \* Bloxorz.goalX
    goalY,      \* Bloxorz.goalY
    initial,    \* Bloxorz.initial
    xSize,      \* State.xSize (class attribute)
    ySize,      \* State.ySize (class attribute)
    queue,      \* Bloxorz.queue: [data: bag of nodes, counter: Int]
    closed,     \* Bloxorz.closed: set of State objects
    pc,         \* "idle" (no solve() running) or "running" (inside the loop)
    current,    \* the local `current` of solve(): the node popped last
    results     \* what the solve() calls made so far returned, in order

vars == <<map, goalX, goalY, initial, xSize, ySize, queue, closed, pc, current, results>>

\* ------------------------------------------------------------ Python helpers
Abs(n) == IF n < 0 THEN 0 - n ELSE n

\* seq[i] of Python: negative subscripts count from the end, anything else
\* out of range raises IndexError.
PyIndex(seq, i) ==
    IF 0 <= i /\ i < Len(seq) THEN seq[i + 1]
    ELSE IF 0 - Len(seq) <= i /\ i < 0 THEN seq[Len(seq) + i + 1]
    ELSE "IndexError"

\* str.find(c) for a single character: lowest index, or -1.
Find(row, c) ==
    IF \E i \in 1..Len(row) : row[i] = c
    THEN (CHOOSE i \in 1..Len(row) : row[i] = c /\ \A j \in 1..(i - 1) : row[j] # c) - 1
    ELSE -1

\* Mutant of replace("S", "0"): the letter O is written, as the comment at
\* line 132 of the source announces.
ReplaceSWritesO(row) == [i \in 1..Len(row) |-> IF row[i] = "S" THEN "O" ELSE row[i]]

\* str.replace("S", "0"): every occurrence.
ReplaceS(row) == [i \in 1..Len(row) |-> IF row[i] = "S" THEN "0" ELSE row[i]]

\* str.replace("SS", "00"): non-overlapping occurrences, left to right.
RECURSIVE ReplaceSS(_)
ReplaceSS(row) ==
    IF Len(row) < 2 THEN row
    ELSE IF row[1] = "S" /\ row[2] = "S"
         THEN <<"0", "0">> \o ReplaceSS(SubSeq(row, 3, Len(row)))
         ELSE <<row[1]>> \o ReplaceSS(Tail(row))

\* ------------------------------------------------------------------- State
State(x, y, o) == [x_cor |-> x, y_cor |-> y, orient |-> o]

\* Mutant of __hash__: the orientation is weighted by one row, not the grid.
HashOrientRow(s) == (xSize * s.orient) + (xSize * s.y_cor) + s.x_cor

\* State.__hash__ with the class attributes passed in.
Hash(s) == (ySize * xSize * s.orient) + (xSize * s.y_cor) + s.x_cor

\* State.__eq__
StateEq(s, t) == Hash(s) = Hash(t)

\* Mutant of the membership test: nothing is ever found in the set.
InClosedNever(s, cl) == FALSE

\* `state in self.closed`: set membership through __hash__ and __eq__.
InClosed(s, cl) == \E c \in cl : StateEq(c, s)

\* Mutant of closed.add(): the call is left out.
ClosedAddNothing(cl, s) == cl

\* Mutant of closed.add(): the set is replaced by the one state.
ClosedAddReplaces(cl, s) == {s}

\* self.closed.add(state): a set keeps the element it already has.
ClosedAdd(cl, s) == IF InClosed(s, cl) THEN cl ELSE cl \cup {s}

\* -------------------------------------------------------------------- Node
Node(c, s, p) == [costGuess |-> c, state |-> s, path |-> p]

\* Mutant of __lt__: the comparison the wrong way round.
NodeLtReversed(a, b) == a.costGuess > b.costGuess

\* Node.__lt__
NodeLt(a, b) == a.costGuess < b.costGuess

\* ----------------------------------------------------------- PriorityQueue
EmptyQueue == [data |-> EmptyBag, counter |-> 0]

push(q, item) == [data |-> q.data (+) SetToBag({item}), counter |-> q.counter + 1]

not_empty(q) == q.counter > 0

\* Mutant of heappop(): any node of the heap comes out, not a least one.
PopChoicesAny(q) == BagToSet(q.data)

\* heapq.heappop returns data[0]; the heap invariant says no element is
\* less than it.  Which of several minimal elements sits at the root
\* depends on the history of sifts: every one of them is a possible result.
PopChoices(q) ==
    {n \in BagToSet(q.data) : \A m \in BagToSet(q.data) : ~NodeLt(m, n)}

\* Mutant of pop(): the counter is not decremented.
popKeepsCounter(q, n) == [data |-> q.data (-) SetToBag({n}), counter |-> q.counter]

\* The queue after pop() returned n.
pop(q, n) == [data |-> q.data (-) SetToBag({n}), counter |-> q.counter - 1]

\* ----------------------------------------------------------------- Bloxorz
NoNode == [costGuess |-> -1, state |-> State(-1, -1, -1), path |-> <<>>]

\* __init__, lines 122-127: the first row holding a G, and its column.
GoalOf(m) ==
    LET rows == {i \in 0..(Len(m) - 1) : Find(m[i + 1], "G") # -1}
        i == CHOOSE r \in rows : \A q \in rows : r <= q
    IN  IF rows = {} THEN [x |-> -1, y |-> -1, found |-> FALSE]
        ELSE [x |-> Find(m[i + 1], "G"), y |-> i, found |-> TRUE]

\* __init__, lines 134-149: the first row holding an S, the orientation read
\* from the neighbour to the right and then from the one below, and the
\* rows with the footprint rewritten.
StartOf(m) ==
    LET rows == {i \in 0..(Len(m) - 1) : Find(m[i + 1], "S") # -1}
        i == CHOOSE r \in rows : \A q \in rows : r <= q
        res == Find(m[i + 1], "S")
        row == m[i + 1]
    IN  IF rows = {} THEN [map |-> m, initial |-> State(-1, -1, -1), found |-> FALSE]
        ELSE IF res + 1 < Len(row) /\ PyIndex(row, res + 1) = "S"
        THEN [map |-> [m EXCEPT ![i + 1] = ReplaceSS(row)],
              initial |-> State(res, i, 1), found |-> TRUE]
        ELSE IF i + 1 < Len(m) /\ PyIndex(PyIndex(m, i + 1), res) = "S"
        THEN [map |-> [m EXCEPT ![i + 1] = ReplaceS(row),
                                ![i + 2] = ReplaceS(m[i + 2])],
              initial |-> State(res, i, 2), found |-> TRUE]
        ELSE [map |-> [m EXCEPT ![i + 1] = ReplaceS(row)],
              initial |-> State(res, i, 0), found |-> TRUE]

\* Mutant of is_goal(): the orientation is not tested.
is_goalAnyOrient(s) == s.x_cor = goalX /\ s.y_cor = goalY

\* Mutant of is_goal(): only the orientation is tested, not the cell.
is_goalStanding(s) == s.orient = 0

is_goal(s) == s.orient = 0 /\ s.x_cor = goalX /\ s.y_cor = goalY

\* Mutant of heuristic(): the division by 3 is left out.
heuristic3Undivided(s) == 3 * (Abs(goalX - s.x_cor) + Abs(goalY - s.y_cor))

\* Mutant of heuristic(): a lying block costs one third more.
heuristic3Orient(s) ==
    Abs(goalX - s.x_cor) + Abs(goalY - s.y_cor) + (IF s.orient = 0 THEN 0 ELSE 1)

\* heuristic(), times three: |dx|/3 + |dy|/3 is heuristic3/3 exactly.
heuristic3(s) == Abs(goalX - s.x_cor) + Abs(goalY - s.y_cor)

\* Mutant of is_safe(): the test x >= 0 is left out, so that x = -1 reads
\* the last tile of the row.
is_safeNoLowerX(x, y) ==
    /\ (Len(map) > y /\ y >= 0)
    /\ (Len(PyIndex(map, y)) > x)
    /\ (PyIndex(PyIndex(map, y), x) = "O" \/ PyIndex(PyIndex(map, y), x) = "G")

\* Mutant of is_safe(): y >= -1 for y >= 0, so row -1 wraps to the last row.
is_safeLowerYOff(x, y) ==
    /\ (Len(map) > y /\ y >= 0 - 1)
    /\ (Len(PyIndex(map, y)) > x /\ x >= 0)
    /\ (PyIndex(PyIndex(map, y), x) = "O" \/ PyIndex(PyIndex(map, y), x) = "G")

\* is_safe(): the conjunction is evaluated left to right as in Python, so
\* the tile is read only when both range tests passed.
is_safe(x, y) ==
    /\ (Len(map) > y /\ y >= 0)
    /\ (Len(PyIndex(map, y)) > x /\ x >= 0)
    /\ (PyIndex(PyIndex(map, y), x) = "O" \/ PyIndex(PyIndex(map, y), x) = "G")

\* The subscripts one is_safe(x, y) call evaluates, in order: Python stops
\* a chained comparison and an `and` at the first false operand, so
\* self.map[y] is evaluated only when y passed its range test and
\* self.map[y][x] only when x passed too.  Each entry names the sequence
\* subscripted, its length and the index used.
is_safeReads(x, y) ==
    IF ~(Len(map) > y /\ y >= 0) THEN <<>>
    ELSE IF ~(Len(PyIndex(map, y)) > x /\ x >= 0)
         THEN <<[of |-> "map", len |-> Len(map), index |-> y]>>
    ELSE <<[of |-> "map", len |-> Len(map), index |-> y],
           [of |-> "row", len |-> Len(PyIndex(map, y)), index |-> x]>>

Actions == <<"U", "D", "L", "R">>

\* successors(), lines 223-235: the four tests and targets of a Standing block.
MovesStanding(x, y) ==
    [U |-> [ok |-> is_safe(x, y - 2) /\ is_safe(x, y - 1), to |-> State(x, y - 2, 2)],
     D |-> [ok |-> is_safe(x, y + 1) /\ is_safe(x, y + 2), to |-> State(x, y + 1, 2)],
     L |-> [ok |-> is_safe(x - 2, y) /\ is_safe(x - 1, y), to |-> State(x - 2, y, 1)],
     R |-> [ok |-> is_safe(x + 1, y) /\ is_safe(x + 2, y), to |-> State(x + 1, y, 1)]]

\* Mutant of the orient == 1 branch: Right tests the cell x+1 instead of x+2.
MovesLyingXNearRight(x, y) ==
    [U |-> [ok |-> is_safe(x, y - 1) /\ is_safe(x + 1, y - 1), to |-> State(x, y - 1, 1)],
     D |-> [ok |-> is_safe(x, y + 1) /\ is_safe(x + 1, y + 1), to |-> State(x, y + 1, 1)],
     L |-> [ok |-> is_safe(x - 1, y), to |-> State(x - 1, y, 0)],
     R |-> [ok |-> is_safe(x + 1, y), to |-> State(x + 2, y, 0)]]

\* successors(), lines 237-249: a block lying along the x axis.
MovesLyingX(x, y) ==
    [U |-> [ok |-> is_safe(x, y - 1) /\ is_safe(x + 1, y - 1), to |-> State(x, y - 1, 1)],
     D |-> [ok |-> is_safe(x, y + 1) /\ is_safe(x + 1, y + 1), to |-> State(x, y + 1, 1)],
     L |-> [ok |-> is_safe(x - 1, y), to |-> State(x - 1, y, 0)],
     R |-> [ok |-> is_safe(x + 2, y), to |-> State(x + 2, y, 0)]]

\* successors(), lines 251-263: a block lying along the y axis.
MovesLyingY(x, y) ==
    [U |-> [ok |-> is_safe(x, y - 1), to |-> State(x, y - 1, 0)],
     D |-> [ok |-> is_safe(x, y + 2), to |-> State(x, y + 2, 0)],
     L |-> [ok |-> is_safe(x - 1, y) /\ is_safe(x - 1, y + 1), to |-> State(x - 1, y, 2)],
     R |-> [ok |-> is_safe(x + 1, y) /\ is_safe(x + 1, y + 1), to |-> State(x + 1, y, 2)]]

\* successors(): the dict as a function from the actions present to states.
successors(s) ==
    LET cand == IF s.orient = 0 THEN MovesStanding(s.x_cor, s.y_cor)
                ELSE IF s.orient = 1 THEN MovesLyingX(s.x_cor, s.y_cor)
                ELSE MovesLyingY(s.x_cor, s.y_cor)
    IN  [k \in {a \in {"U", "D", "L", "R"} : cand[a].ok} |-> cand[k].to]

\* Mutant of the loop over the successors: templist is the parent's list
\* itself, not a copy, so every append lengthens the path the next
\* successor starts from.
RECURSIVE PushSuccessorsAliased(_, _, _)
PushSuccessorsAliased(q, cur, i) ==
    IF i > Len(Actions) THEN q
    ELSE LET key == Actions[i]
             succ == successors(cur.state)
         IN  IF key \in DOMAIN succ /\ ~InClosed(succ[key], closed)
             THEN LET templist == Append(cur.path, key)
                      new_state == succ[key]
                  IN  PushSuccessorsAliased(
                          push(q, Node(3 * Len(templist) + heuristic3(new_state),
                                       new_state, templist)),
                          [cur EXCEPT !.path = templist], i + 1)
             ELSE PushSuccessorsAliased(q, cur, i + 1)

\* solve(), lines 287-306: the loop over the successors of `cur`, from the
\* i-th action on, pushing a node for every successor not in the closed set.
RECURSIVE PushSuccessors(_, _, _)
PushSuccessors(q, cur, i) ==
    IF i > Len(Actions) THEN q
    ELSE LET key == Actions[i]
             succ == successors(cur.state)
         IN  IF key \in DOMAIN succ /\ ~InClosed(succ[key], closed)
             THEN LET templist == Append(cur.path, key)
                      new_state == succ[key]
                  IN  PushSuccessors(
                          push(q, Node(3 * Len(templist) + heuristic3(new_state),
                                       new_state, templist)),
                          cur, i + 1)
             ELSE PushSuccessors(q, cur, i + 1)

\* --------------------------------------------------------------- the boards
Cells(w, h) == (0..(w - 1)) \X (0..(h - 1))

\* The footprints an S marker can have: one cell, two side by side, two stacked.
Footprints(w, h) ==
    {{c} : c \in Cells(w, h)}
    \cup {{c, <<c[1] + 1, c[2]>>} : c \in (0..(w - 2)) \X (0..(h - 1))}
    \cup {{c, <<c[1], c[2] + 1>>} : c \in (0..(w - 1)) \X (0..(h - 2))}

\* The text of a board: G at g, S on fp, a void character on void, O elsewhere.
BoardText(w, h, g, fp, void) ==
    [r \in 1..h |-> [c \in 1..w |->
        IF <<c - 1, r - 1>> = g THEN "G"
        ELSE IF <<c - 1, r - 1>> \in fp THEN "S"
        ELSE IF <<c - 1, r - 1>> \in void THEN "X"
        ELSE "O"]]

\* The well-formed boards: rectangular, one G, one S footprint.
WellFormedBoards ==
    UNION {UNION {
        {BoardText(w, h, g, fp, void) :
            void \in {v \in SUBSET (Cells(w, h) \ (fp \cup {g})) :
                          Cardinality(v) <= MaxVoid}}
        : <<g, fp>> \in {p \in Cells(w, h) \X Footprints(w, h) : p[1] \notin p[2]}}
        : <<w, h>> \in (1..MaxX) \X (1..MaxY)}

\* ---------------------------------------------------------- the state machine
\* Bloxorz.__init__ on a well-formed board.
Init ==
    \E input_matrix \in WellFormedBoards :
        /\ map = StartOf(input_matrix).map
        /\ xSize = Len(input_matrix[1])
        /\ ySize = Len(input_matrix)
        /\ goalX = GoalOf(input_matrix).x
        /\ goalY = GoalOf(input_matrix).y
        /\ initial = StartOf(input_matrix).initial
        /\ closed = {}
        /\ queue = push(EmptyQueue, Node(heuristic3(initial), initial, <<>>))
        /\ pc = "idle"
        /\ current = NoNode
        /\ results = <<>>

\* solve() is called.
Solve ==
    /\ pc = "idle"
    /\ Len(results) < MaxCalls
    /\ pc' = "running"
    /\ current' = NoNode
    /\ UNCHANGED <<map, goalX, goalY, initial, xSize, ySize, queue, closed, results>>

\* One turn of the loop, lines 274-281: the popped state is in the closed set.
Discard ==
    /\ pc = "running"
    /\ not_empty(queue)
    /\ \E n \in PopChoices(queue) :
        /\ InClosed(n.state, closed)
        /\ current' = n
        /\ queue' = pop(queue, n)
    /\ UNCHANGED <<map, goalX, goalY, initial, xSize, ySize, closed, pc, results>>

\* One turn of the loop, lines 274-284: the popped state is the goal.
ReturnGoal ==
    /\ pc = "running"
    /\ not_empty(queue)
    /\ \E n \in PopChoices(queue) :
        /\ ~InClosed(n.state, closed)
        /\ is_goal(n.state)
        /\ current' = n
        /\ queue' = pop(queue, n)
        /\ results' = Append(results, n.path)
    /\ pc' = "idle"
    /\ UNCHANGED <<map, goalX, goalY, initial, xSize, ySize, closed>>

\* Mutant of the expansion: the tile under the expanded state is marked on
\* the board as visited.
ExpandMarksTile ==
    /\ pc = "running"
    /\ not_empty(queue)
    /\ \E n \in PopChoices(queue) :
        /\ ~InClosed(n.state, closed)
        /\ ~is_goal(n.state)
        /\ current' = n
        /\ queue' = PushSuccessors(pop(queue, n), n, 1)
        /\ closed' = ClosedAdd(closed, n.state)
        /\ map' = [map EXCEPT ![n.state.y_cor + 1][n.state.x_cor + 1] = "0"]
    /\ UNCHANGED <<goalX, goalY, initial, xSize, ySize, pc, results>>

\* One turn of the loop, lines 274-308: the popped state is expanded.
Expand ==
    /\ pc = "running"
    /\ not_empty(queue)
    /\ \E n \in PopChoices(queue) :
        /\ ~InClosed(n.state, closed)
        /\ ~is_goal(n.state)
        /\ current' = n
        /\ queue' = PushSuccessors(pop(queue, n), n, 1)
        /\ closed' = ClosedAdd(closed, n.state)
    /\ UNCHANGED <<map, goalX, goalY, initial, xSize, ySize, pc, results>>

\* Lines 272 and 310: the frontier is empty, solve() returns [].
ReturnEmpty ==
    /\ pc = "running"
    /\ ~not_empty(queue)
    /\ results' = Append(results, <<>>)
    /\ pc' = "idle"
    /\ UNCHANGED <<map, goalX, goalY, initial, xSize, ySize, queue, closed, current>>

Next == Solve \/ Discard \/ ReturnGoal \/ Expand \/ ReturnEmpty

Spec == Init /\ [][Next]_vars

\* A turn of the loop of solve(), or its return.
LoopTurn == Discard \/ ReturnGoal \/ Expand \/ ReturnEmpty

\* solve() is straight-line single-threaded code: once called, the loop keeps
\* taking turns until it returns.  Whether solve() is called is up to the
\* caller, so Solve carries no fairness.
LiveSpec == Init /\ [][Next]_vars /\ WF_vars(LoopTurn)

\* ------------------------------------------------- reference definitions
\* The states reached from s by one action.
SuccSet(s) == {successors(s)[k] : k \in DOMAIN successors(s)}

\* The goal predicate as the specification states it.
GoalState(s) == s = State(goalX, goalY, 0)

\* Breadth-first search: the least number of actions from a state of
\* `frontier` (all at depth d) to a goal state, -1 when there is none.
RECURSIVE BFSDist(_, _, _)
BFSDist(frontier, seen, d) ==
    IF \E s \in frontier : GoalState(s) THEN d
    ELSE LET next == (UNION {SuccSet(s) : s \in frontier}) \ seen
         IN  IF next = {} THEN -1 ELSE BFSDist(next, seen \cup next, d + 1)

Dist(s) == BFSDist({s}, {s}, 0)

\* What Replay yields when an action is not a key of successors(), where
\* print_result raises KeyError: no state on any board.
KeyError == State(-9, -9, -9)

\* Replaying a path from s as print_result does: the state reached, or
\* KeyError when an action is not a key of successors().
RECURSIVE Replay(_, _)
Replay(s, path) ==
    IF path = <<>> THEN s
    ELSE IF Head(path) \in DOMAIN successors(s)
         THEN Replay(successors(s)[Head(path)], Tail(path))
         ELSE KeyError

QueueNodes == BagToSet(queue.data)

\* ---------------------------------------------------------------- the claims
\* C1: when a goal state is reachable from the initial state, the path the
\* first solve() call returns has the breadth-first distance as its length,
\* whatever minimal node each pop chose.
C1_Optimal ==
    (Len(results) >= 1 /\ Dist(initial) # -1) => Len(results[1]) = Dist(initial)

\* A first call that returned a path of seven actions while other nodes
\* were still waiting in the frontier.
C1_Witness ==
    Len(results) = 1 /\ pc = "idle" /\ Len(results[1]) = 7 /\ queue.counter > 1

\* C2: two solve() calls in a row on one engine return the same sequence.
C2_Idempotent ==
    Len(results) >= 2 => results[2] = results[1]

\* C3: every non-empty path solve() returns replays through successors()
\* without a missing key and ends Standing on the goal cell.
C3_LegalReplay ==
    \A i \in 1..Len(results) :
        results[i] # <<>> => Replay(initial, results[i]) = State(goalX, goalY, 0)

\* A returned path of at least three actions.
C3_Witness ==
    Len(results) >= 1 /\ Len(results[1]) >= 3
        /\ Replay(initial, results[1]) = State(goalX, goalY, 0)

\* C4: when no goal state is reachable, heappop is never called on an empty
\* heap (no IndexError), every return is the empty sequence, and it is made
\* with the frontier empty.
C4_UnreachableReturnsEmpty ==
    Dist(initial) = -1 =>
        /\ (pc = "running" /\ not_empty(queue)) => PopChoices(queue) # {}
        /\ \A i \in 1..Len(results) : results[i] = <<>>
        /\ Len(results) >= 1 => queue.data = EmptyBag /\ queue.counter = 0

\* A search that expanded at least four states before it returned empty.
C4_Witness ==
    Dist(initial) = -1 /\ Len(results) = 1 /\ results[1] = <<>>
        /\ Cardinality(closed) >= 4

\* The engine as the constructor left it.
Fresh == pc = "idle" /\ results = <<>>

\* Every state whose corner is on the board or up to two cells off it.
ProbeStates ==
    {State(x, y, o) : <<x, y, o>> \in ((0 - 2)..(xSize + 1)) \X ((0 - 2)..(ySize + 1)) \X (0..2)}

\* The cells a state occupies.
Footprint(s) ==
    IF s.orient = 0 THEN {<<s.x_cor, s.y_cor>>}
    ELSE IF s.orient = 1 THEN {<<s.x_cor, s.y_cor>>, <<s.x_cor + 1, s.y_cor>>}
    ELSE {<<s.x_cor, s.y_cor>>, <<s.x_cor, s.y_cor + 1>>}

\* A cell inside the grid whose tile is O or G.
OnSafeTile(c) ==
    /\ c[1] \in 0..(Len(map[1]) - 1)
    /\ c[2] \in 0..(Len(map) - 1)
    /\ map[c[2] + 1][c[1] + 1] \in {"O", "G"}

\* The move table of the specification: orientation, action, the offsets of
\* the cells tested, and the offset and orientation of the target.
MoveTable ==
    { [from |-> 0, act |-> "U", checks |-> {<<0, -2>>, <<0, -1>>}, to |-> <<0, -2, 2>>],
      [from |-> 0, act |-> "D", checks |-> {<<0, 1>>, <<0, 2>>},   to |-> <<0, 1, 2>>],
      [from |-> 0, act |-> "L", checks |-> {<<-2, 0>>, <<-1, 0>>}, to |-> <<-2, 0, 1>>],
      [from |-> 0, act |-> "R", checks |-> {<<1, 0>>, <<2, 0>>},   to |-> <<1, 0, 1>>],
      [from |-> 1, act |-> "U", checks |-> {<<0, -1>>, <<1, -1>>}, to |-> <<0, -1, 1>>],
      [from |-> 1, act |-> "D", checks |-> {<<0, 1>>, <<1, 1>>},   to |-> <<0, 1, 1>>],
      [from |-> 1, act |-> "L", checks |-> {<<-1, 0>>},            to |-> <<-1, 0, 0>>],
      [from |-> 1, act |-> "R", checks |-> {<<2, 0>>},             to |-> <<2, 0, 0>>],
      [from |-> 2, act |-> "U", checks |-> {<<0, -1>>},            to |-> <<0, -1, 0>>],
      [from |-> 2, act |-> "D", checks |-> {<<0, 2>>},             to |-> <<0, 2, 0>>],
      [from |-> 2, act |-> "L", checks |-> {<<-1, 0>>, <<-1, 1>>}, to |-> <<-1, 0, 2>>],
      [from |-> 2, act |-> "R", checks |-> {<<1, 0>>, <<1, 1>>},   to |-> <<1, 0, 2>>] }

\* The rows of the table whose tests all hold at s.
TableRowsAt(s) ==
    {r \in MoveTable :
        /\ r.from = s.orient
        /\ \A c \in r.checks : is_safe(s.x_cor + c[1], s.y_cor + c[2])}

\* successors(s) is the mapping the table defines.
MatchesTable(s) ==
    LET succ == successors(s)
    IN  /\ DOMAIN succ = {r.act : r \in TableRowsAt(s)}
        /\ \A r \in TableRowsAt(s) :
              succ[r.act] = State(s.x_cor + r.to[1], s.y_cor + r.to[2], r.to[3])
        /\ Cardinality(DOMAIN succ) <= 4

\* C5: on every board, for every state, successors() is the mapping of the
\* twelve-row move table: the keys are the actions whose tests hold, the
\* values the table's targets, at most four entries.  Checked for every
\* state on or near the board of a fresh engine, and for the state each turn
\* of the loop popped.
C5_SuccessorsMatchTable ==
    /\ Fresh => \A s \in ProbeStates : MatchesTable(s)
    /\ current # NoNode => MatchesTable(current.state)

\* A popped state with three of the four actions present.
C5_Witness ==
    /\ pc = "running" /\ current # NoNode
    /\ Cardinality(DOMAIN successors(current.state)) = 3
    /\ MatchesTable(current.state)

\* All cells of the footprint of s are safe, and lie in the grid on O or G.
FootprintSafe(s) ==
    \A c \in Footprint(s) : is_safe(c[1], c[2]) /\ OnSafeTile(c)

\* C6: every target of successors() has a footprint of safe cells, and every
\* node in the frontier other than the initial one lies inside the grid on
\* tiles O or G.
C6_TargetsSafe ==
    /\ Fresh => \A s \in ProbeStates : \A t \in SuccSet(s) : FootprintSafe(t)
    /\ \A n \in QueueNodes : n.path # <<>> => FootprintSafe(n.state)

\* A frontier holding a lying and a standing successor at once.
C6_Witness ==
    /\ \E n \in QueueNodes : n.path # <<>> /\ n.state.orient = 2 /\ FootprintSafe(n.state)
    /\ \E n \in QueueNodes : n.path # <<>> /\ n.state.orient = 0 /\ FootprintSafe(n.state)

C8_Consistent ==
    /\ Fresh => \A s \in ProbeStates : \A t \in SuccSet(s) :
                    heuristic3(s) <= 3 + heuristic3(t)
    /\ current # NoNode => \A t \in SuccSet(current.state) :
                    heuristic3(current.state) <= 3 + heuristic3(t)

\* An expanded state with a successor two thirds nearer to the goal.
C8_Witness ==
    /\ pc = "running" /\ current # NoNode
    /\ \E t \in SuccSet(current.state) : heuristic3(current.state) = 2 + heuristic3(t)

\* C9: the heuristic is admissible: for every state from which a goal state
\* is reachable h is at most the least number of actions to it, and h is 0
\* at the goal position in every orientation.
C9_Admissible ==
    Fresh =>
        /\ \A s \in ProbeStates : Dist(s) # -1 => heuristic3(s) <= 3 * Dist(s)
        /\ \A o \in 0..2 : heuristic3(State(goalX, goalY, o)) = 0

\* A fresh engine whose initial state is two actions from the goal with
\* h = 1, and with the goal reachable from a lying state on the goal cell.
C9_Witness ==
    /\ Fresh
    /\ Dist(initial) = 2 /\ heuristic3(initial) = 3
    /\ \E o \in 1..2 : Dist(State(goalX, goalY, o)) > 0

\* C10: a turn of the loop that pops a state already in the closed set only
\* removes the node: no push, no change of the closed set, no return; a turn
\* that pops any other state either returns (goal) or adds exactly that
\* state to the closed set; and the node popped is a cheapest node of its
\* state in the frontier.  So every state is expanded at most once.
C10_ExpandedOnce ==
    [][(pc = "running" /\ not_empty(queue)) =>
        /\ current' \in QueueNodes
        /\ \A m \in QueueNodes :
              m.state = current'.state => current'.costGuess <= m.costGuess
        /\ IF current'.state \in closed
           THEN /\ closed' = closed
                /\ queue'.data = queue.data (-) SetToBag({current'})
                /\ results' = results
                /\ pc' = "running"
           ELSE IF GoalState(current'.state)
           THEN closed' = closed /\ results' = Append(results, current'.path)
           ELSE closed' = closed \cup {current'.state} /\ results' = results]_vars

\* The least number of actions from a state of `frontier` to the state t.
RECURSIVE BFSTo(_, _, _, _)
BFSTo(frontier, seen, d, t) ==
    IF t \in frontier THEN d
    ELSE LET next == (UNION {SuccSet(s) : s \in frontier}) \ seen
         IN  IF next = {} THEN -1 ELSE BFSTo(next, seen \cup next, d + 1, t)

\* The first solve() call has just discarded a node of cost 5 whose path is
\* longer than the shortest one to its state, the state being closed.
C10_Witness ==
    /\ pc = "running" /\ current # NoNode /\ results = <<>>
    /\ current.state \in closed
    /\ current.costGuess = 3 * 5
    /\ Len(current.path) > BFSTo({initial}, {initial}, 0, current.state)

\* The least number of actions from the initial state to s.
DistFromInitial(s) == BFSTo({initial}, {initial}, 0, s)

\* A turn of the loop is about to pop a node.
Popping == pc = "running" /\ not_empty(queue)

\* C11: whenever solve() pops a node whose state is not in the closed set,
\* the node's path is a shortest one from the initial state to that state,
\* and no node popped for a state has a path shorter than the shortest one.
C11_FirstPopOptimal ==
    [][Popping =>
        /\ Len(current'.path) >= DistFromInitial(current'.state)
        /\ current'.state \notin closed =>
              Len(current'.path) = DistFromInitial(current'.state)]_vars

\* The same statement for the pops of the first solve() call only: it holds,
\* the pops that break C11 are those of a second call on the same engine.
C11_FirstPopOptimalFirstCall ==
    [][(Popping /\ results = <<>>) =>
        /\ Len(current'.path) >= DistFromInitial(current'.state)
        /\ current'.state \notin closed =>
              Len(current'.path) = DistFromInitial(current'.state)]_vars

\* A node's path replays from the initial state to the node's state, and
\* its cost is the path length plus the heuristic (in thirds).
NodeConsistent(n) ==
    /\ Replay(initial, n.path) = n.state
    /\ n.costGuess = 3 * Len(n.path) + heuristic3(n.state)

\* The turn that pops `parent` and expands it pushes, for every successor
\* not closed, the node whose path is the parent's path and the action, and
\* nothing else; the parent is the node as it lay in the frontier and the
\* other nodes of the frontier stay as they are.
ExpansionPushes(parent) ==
    LET succ == successors(parent.state)
        new == {Node(3 * (Len(parent.path) + 1) + heuristic3(succ[k]), succ[k],
                     Append(parent.path, k)) : k \in {a \in DOMAIN succ : succ[a] \notin closed}}
    IN  /\ parent \in QueueNodes
        /\ queue'.data = (queue.data (-) SetToBag({parent})) (+) SetToBag(new)

\* C12: every node in the frontier has a path that replays to its state and
\* the cost len(path) + h(state); a fresh engine holds the one initial node
\* with the empty path; an expansion pushes the parent's path followed by
\* the action taken and leaves the parent's path as it was.
C12_NodesConsistent ==
    /\ [](/\ \A n \in QueueNodes : NodeConsistent(n)
          /\ Fresh => queue.data = SetToBag({Node(heuristic3(initial), initial, <<>>)}))
    /\ [][(Popping /\ closed' # closed) => ExpansionPushes(current')]_vars

\* A frontier holding a node four actions deep next to a sibling pushed by
\* the same expansion.
C12_Witness ==
    \E n \in QueueNodes : \E m \in QueueNodes :
        /\ Len(n.path) = 4 /\ NodeConsistent(n)
        /\ m # n /\ Len(m.path) = 4 /\ SubSeq(m.path, 1, 3) = SubSeq(n.path, 1, 3)

\* C13: the closed set only grows during solve(); it grows by the state
\* popped in that turn, which was not closed, is not a goal state, and whose
\* successors not closed before the turn are in the frontier after it; no
\* state satisfying the goal predicate is ever in the closed set.
C13_ClosedAppendOnly ==
    /\ [](\A s \in closed : ~GoalState(s) /\ ~is_goal(s))
    /\ [][/\ closed \subseteq closed'
          /\ closed' # closed =>
                /\ Popping
                /\ current'.state \notin closed
                /\ ~GoalState(current'.state)
                /\ closed' = closed \cup {current'.state}
                /\ \A t \in SuccSet(current'.state) :
                      t \notin closed =>
                          \E n \in BagToSet(queue'.data) :
                              n.state = t /\ Len(n.path) = Len(current'.path) + 1]_vars

\* A closed set of six states, the goal reachable and not among them, after
\* the first call returned.
C13_Witness ==
    /\ Cardinality(closed) = 6
    /\ Len(results) = 1 /\ results[1] # <<>>
    /\ State(goalX, goalY, 0) \notin closed

\* The variant of the loop: five for every state not yet closed, one for
\* every node in the frontier.  An expansion closes one state (-5) and pops
\* one node and pushes at most four (+3); a discard pops one node (-1).
Measure == 5 * (3 * xSize * ySize - Cardinality(closed)) + queue.counter

\* C14: solve() terminates.  A running call can always take a turn of its
\* loop (no turn raises or blocks), every turn that does not return lowers
\* Measure, and Measure is never negative: the closed set holds at most the
\* 3 * width * height states there are, each expanded once, and an
\* expansion pushes at most four nodes.  So a call returns after at most
\* Measure turns, with a goal node's path or with the frontier empty.
C14_Terminates ==
    /\ [](/\ Cardinality(closed) <= 3 * xSize * ySize
          /\ queue.counter >= 0
          /\ pc = "running" => ENABLED LoopTurn)
    /\ [][pc = "running" =>
            /\ pc' = "running" =>
                  /\ Measure' < Measure
                  /\ queue'.counter <= queue.counter - 1 + 4
            /\ pc' = "idle" =>
                  \/ results' = Append(results, current'.path) /\ GoalState(current'.state)
                  \/ results' = Append(results, <<>>) /\ queue.data = EmptyBag]_vars

\* The same as a liveness property of LiveSpec: a running call returns.
C14_RunningLeadsToReturn == (pc = "running") ~> (pc = "idle")

\* A call that returned after eleven states had been expanded.
C14_Witness ==
    pc = "idle" /\ Len(results) = 1 /\ Cardinality(closed) = 11

\* ------------------------------------------------------------------ C15
\* The states the search has created: the initial state, the state of every
\* node in the frontier, the popped state, and the closed states.
Created ==
    {initial} \cup {n.state : n \in QueueNodes} \cup closed
        \cup (IF current = NoNode THEN {} ELSE {current.state})

\* The created states and every target successors() yields from one of them.
Occurring == Created \cup UNION {SuccSet(s) : s \in Created}

\* C15: the key is collision-free on the states of a solve.  Any two
\* occurring states have equal keys iff they are the same triple, every one
\* lies in the grid with orientation 0..2 (which is what makes the key
\* injective), and the membership test of the closed set finds a state iff
\* that very state was added.
C15_KeyCollisionFree ==
    /\ \A s, t \in Occurring :
          /\ (Hash(s) = Hash(t)) <=> (s = t)
          /\ StateEq(s, t) <=> (s = t)
    /\ \A s \in Occurring :
          /\ s.x_cor \in 0..(xSize - 1) /\ s.y_cor \in 0..(ySize - 1) /\ s.orient \in 0..2
          /\ Hash(s) \in 0..(3 * xSize * ySize - 1)
          /\ InClosed(s, closed) <=> (s \in closed)

\* A popped state in the closed set that shares its row offset with a closed
\* state of another row and orientation: orientation + y agree, x agrees.
C15_Witness ==
    /\ current # NoNode
    /\ current.state \in closed
    /\ \E t \in closed :
          /\ t # current.state
          /\ t.x_cor = current.state.x_cor
          /\ t.orient + t.y_cor = current.state.orient + current.state.y_cor

\* ------------------------------------------------------------------ C16
\* Coordinates on the grid and up to two cells further out than Python's
\* negative subscripts reach.
CoordWindow == ((0 - xSize - 2)..(xSize + 2)) \X ((0 - ySize - 2)..(ySize + 2))

\* C16: is_safe(x, y) is total.  For every coordinate pair it is true iff
\* the pair is on the grid and the tile there is O or G; no call raises; a
\* pair off the grid gives false and no tile is read for it.
C16_IsSafeTotal ==
    \A c \in CoordWindow :
        LET x == c[1]
            y == c[2]
            onGrid == 0 <= x /\ x < xSize /\ 0 <= y /\ y < ySize
            reads == is_safeReads(x, y)
        IN  /\ is_safe(x, y) \in BOOLEAN
            /\ is_safe(x, y) <=> (onGrid /\ map[y + 1][x + 1] \in {"O", "G"})
            /\ \A k \in DOMAIN reads :
                  0 <= reads[k].index /\ reads[k].index < reads[k].len
            /\ onGrid => Len(reads) = 2
            /\ ~onGrid => (~is_safe(x, y) /\ \A k \in DOMAIN reads : reads[k].of # "row")

\* The search expanded a state in the left column whose row ends in a safe
\* tile: successors() asked is_safe about column -1, where a wrapped
\* subscript would have found that tile.
C16_Witness ==
    /\ current # NoNode
    /\ current.state \in closed
    /\ current.state.x_cor = 0
    /\ PyIndex(PyIndex(map, current.state.y_cor), 0 - 1) \in {"O", "G"}
    /\ ~is_safe(0 - 1, current.state.y_cor)

\* ------------------------------------------------------------------ C17
\* C17: within one solve() call the popped costGuess values never decrease.
\* Every node left in the frontier costs at least as much as the node
\* popped last, each pop yields a node that costs at least as much as the
\* one before it, and the popped node has the shortest path of all the
\* frontier nodes for its state, those pushed in the same turn included.
C17_PopsNonDecreasing ==
    /\ [](current # NoNode =>
             \A n \in QueueNodes : n.costGuess >= current.costGuess)
    /\ [][Popping =>
            /\ current # NoNode => current'.costGuess >= current.costGuess
            /\ \A m \in QueueNodes \cup BagToSet(queue'.data) :
                  m.state = current'.state => Len(m.path) >= Len(current'.path)]_vars

\* The pop took the shorter of two frontier nodes for one state: the longer
\* one is still in the frontier, and the cost has risen since the first pop.
C17_Witness ==
    /\ current # NoNode
    /\ current.costGuess > heuristic3(initial)
    /\ \E m \in QueueNodes :
          m.state = current.state /\ Len(m.path) > Len(current.path)

\* ------------------------------------------------------------------ C18
\* C18: the initial state is never a goal state: the G cell is not under
\* the block, the goal predicate is false of it, and its distance to the
\* goal is not 0.  So the first solve() call returns the empty path iff no
\* goal state is reachable from the initial state.
C18_EmptyMeansUnreachable ==
    /\ <<goalX, goalY>> \notin Footprint(initial)
    /\ ~is_goal(initial)
    /\ ~GoalState(initial)
    /\ Dist(initial) # 0
    /\ Len(results) >= 1 => ((results[1] = <<>>) <=> (Dist(initial) = -1))

\* A block that starts upright on the cell next to G and cannot reach it:
\* the first call has returned the empty path.
C18_Witness ==
    /\ Len(results) >= 1
    /\ results[1] = <<>>
    /\ initial.orient = 0
    /\ Abs(goalX - initial.x_cor) + Abs(goalY - initial.y_cor) = 1
    /\ Dist(initial) = -1

\* ------------------------------------------------------------------ C19
\* C19: no step of solve(), with the calls of successors(), is_safe(),
\* is_goal() and heuristic() it makes, changes the board map, the goal
\* position, the grid dimensions or the initial state.  The board stays
\* what the constructor made it: G at the goal position, the dimensions
\* those of the map, and "0" under the initial state.
C19_BoardFrame ==
    /\ [][UNCHANGED <<map, goalX, goalY, xSize, ySize, initial>>]_vars
    /\ [](/\ ySize = Len(map)
          /\ \A r \in 1..Len(map) : Len(map[r]) = xSize
          /\ map[goalY + 1][goalX + 1] = "G"
          /\ \A c \in Footprint(initial) : map[c[2] + 1][c[1] + 1] = "0")

\* Two calls have returned, the first with a path, after at least five
\* expansions that queried tiles next to the goal.
C19_Witness ==
    /\ Len(results) = 2
    /\ results[1] # <<>>
    /\ Cardinality(closed) >= 5
    /\ \E s \in closed : Abs(goalX - s.x_cor) + Abs(goalY - s.y_cor) = 1

====
